---- MODULE Spec2Model ----
(***************************************************************************)
(* Model of mnemonic_validator: the command line program (src/main.rs,     *)
(* process_file with its rayon worker pool and its Ctrl+C handler) and the *)
(* GUI program (src/bin/mnemonic_validator_GUI.rs, AppState and the worker *)
(* thread of start_validation).  The variable `program` says which of the  *)
(* two binaries the behaviour is a run of.                                 *)
(***************************************************************************)
EXTENDS Integers, Sequences, FiniteSets, TLC

(* ------------------------------ bounds --------------------------------- *)
\* number of rayon worker threads of the CLI pool
NumWorkers == 3
\* number of lines of the input file that follow the uniform prefix
MaxTail == 2

\* number of times Start Validation is clicked in the GUI
MaxRuns == 2

(* -------------------------- program constants -------------------------- *)
\* main.rs:157  i % 10000 == 0
CheckpointInterval == 10000
\* GUI.rs:383  processed % 200 == 0
ReportInterval == 200

(* ------------------------------ texts ---------------------------------- *)
\* A line of the input is a text, or the read error BufRead::lines yields
\* for a line that is not UTF-8.  "v" is a valid phrase, " v " the same
\* phrase with surrounding blanks, "x" a text that is no phrase, "" and " "
\* the empty and the whitespace-only line.
ReadErr == "#ERR"
CliLines == {"v", " ", ReadErr}
\* fs::read_to_string gives the GUI texts only
GuiLines == {"v", " v ", "x", " "}
\* what a read finds where a file has a hole
Hole == "#HOLE"

\* str::trim
Trim(t) == CASE t = " v " -> "v"
             [] t = " "   -> ""
             [] OTHER     -> t

\* is_valid: Mnemonic::parse_in_normalized splits the text on whitespace,
\* so blanks around a phrase do not matter and a text without words fails
is_valid(t) == Trim(t) = "v"

(* ----------------------- checkpoint file content ----------------------- *)
\* the content of a file is a sequence of characters
DigitChars == <<"0", "1", "2", "3", "4", "5", "6", "7", "8", "9">>
IsDigit(c) == \E d \in 1..Len(DigitChars) : DigitChars[d] = c
DigitOf(c) == (CHOOSE d \in 1..Len(DigitChars) : DigitChars[d] = c) - 1
NonUtf8 == "\\xFF"

RECURSIVE to_string(_)
\* usize::to_string: the decimal digits, most significant first
to_string(n) == IF n < Len(DigitChars) THEN <<DigitChars[n + 1]>>
                ELSE Append(to_string(n \div Len(DigitChars)),
                            DigitChars[(n % Len(DigitChars)) + 1])

RECURSIVE DigitsValue(_)
DigitsValue(s) == IF s = <<>> THEN 0
                  ELSE Len(DigitChars) * DigitsValue(SubSeq(s, 1, Len(s) - 1))
                       + DigitOf(s[Len(s)])

\* str::parse::<usize>().unwrap_or(0): an optional '+', then one or more
\* digits; everything else is an error and gives 0
parse_or_zero(s) ==
    LET body == IF s # <<>> /\ s[1] = "+" THEN Tail(s) ELSE s
    IN  IF body # <<>> /\ \A k \in 1..Len(body) : IsDigit(body[k])
        THEN DigitsValue(body) ELSE 0

\* fs::read_to_string fails on content that is not UTF-8
Readable(s) == \A k \in 1..Len(s) : s[k] # NonUtf8

VARIABLES
    program,            \* "cli" or "gui": the binary that runs
    fault,              \* the operation that fails in this environment, or "none"
    prefix, tail,       \* the input file: `prefix` lines "x", then `tail`
    cpExists, cpBytes,  \* the checkpoint file
    mainPc,             \* position of the main thread in process_file
    alive, exitCode,    \* the process and its exit status
    checkpoint,         \* main.rs:79   let checkpoint
    total_lines,        \* main.rs:87   let mut total_lines
    running,            \* main.rs:104  running
    current_position,   \* main.rs:109  current_position
    processed,          \* main.rs:126  processed
    valid_count,        \* main.rs:127  valid_count
    cursor,             \* index of the next item reader.lines().enumerate() yields
    work,               \* the items in flight: [i: index, pc: position of its thread]
    exhausted,          \* the iterator has returned None
    crashed,            \* number of pool threads whose job ended in a panic
    locked,             \* the writer's Mutex is held
    poisoned,           \* a thread panicked while it held the writer's Mutex
    outBuf, outFile,    \* BufWriter's buffer and the output file, <<index, text>>
    hpc, hpos,          \* the Ctrl+C handler: its position and its `pos`
    sigAt,              \* history: where the pool was when the signal arrived
    persisted,          \* history: every value written to the checkpoint file
    handed, handCount,  \* history: indices handed to workers, number of hand-overs
    accepted,           \* history: indices whose worker read running = true (l.136)
    evaluated,          \* history: <<index, text>> passed to the predicate
    is_running,         \* GUI.rs:32   AppState::is_running
    cancel_flag,        \* GUI.rs:33   AppState::cancel_flag
    progress,           \* GUI.rs:35   AppState::progress
    progress_rx,        \* GUI.rs:36   the run whose receiver is held, 0 for None
    runs,               \* number of calls of start_validation so far
    chan,               \* per run: the snapshots sent and not yet received
    tpc, tidx,          \* per run: the worker thread's position, lines taken
    tproc, tvalid,      \* per run: GUI.rs:345-346  processed, valid
    tbuf, toff,         \* per run: BufWriter's buffer, offset of its file handle
    cancelledRuns,      \* history: the runs during which Cancel was clicked
    firstOut            \* history: <<the lines in the output after a first full run>>

cliVars == <<fault, prefix, tail, cpExists, cpBytes, mainPc, alive, exitCode,
             checkpoint, total_lines, running, current_position, processed,
             valid_count, cursor, work, exhausted, crashed, locked, poisoned,
             outBuf, outFile, hpc, hpos, sigAt,
             persisted, handed, handCount, accepted, evaluated>>

guiVars == <<is_running, cancel_flag, progress, progress_rx, runs, chan, tpc, tidx,
             tproc, tvalid, tbuf, toff, cancelledRuns>>

vars == <<program, cliVars, guiVars, firstOut>>

\* groups of variables, for the UNCHANGED clauses
inputVars == <<program, fault, prefix, tail>>
cpVars    == <<cpExists, cpBytes, persisted>>
mainVars  == <<mainPc, alive, exitCode, checkpoint, total_lines>>
flagVars  == <<running, current_position>>
countVars == <<processed, valid_count>>
iterVars  == <<cursor, handed, handCount>>
workVars  == <<work, exhausted, crashed>>
outVars   == <<locked, poisoned, outBuf, outFile>>
hVars     == <<hpc, hpos, sigAt>>
otherVars == <<inputVars, guiVars, firstOut>>
histVars  == <<accepted, evaluated>>

(* ----------------------------- the input ------------------------------- *)
\* The files: 0 or CheckpointInterval-1 lines "x", then at most MaxTail lines
Prefixes == {0, CheckpointInterval - 1}
Tails == UNION {[1..n -> CliLines] : n \in 0..MaxTail}
GuiTails == UNION {[1..n -> GuiLines] : n \in 0..MaxTail}

FileLen == prefix + Len(tail)
LineAt(i) == IF i < prefix THEN "x" ELSE tail[i - prefix + 1]

\* The checkpoint files: absent, a number from the start of the tail on
\* (the runs that are modelled start in the tail),
\* text that is no number, content that is not text
StartValues(p, t) == p..(p + Len(t) + 1)
CheckpointFiles(p, t) ==
    {<<TRUE, to_string(n)>> : n \in StartValues(p, t)}
    \cup (IF p = 0 THEN {<<FALSE, <<>>>>, <<TRUE, <<"x">>>>, <<TRUE, <<NonUtf8>>>>}
          ELSE {})

Max(a, b) == IF a >= b THEN a ELSE b

(* ------------------------------- Init ---------------------------------- *)
Runs == 1..MaxRuns

NoProgress == [processed |-> 0, valid |-> 0, total |-> 0, status |-> ""]

\* the state both programs start in, whatever the input is
Fresh ==
    /\ mainPc = "main"
    /\ alive = TRUE
    /\ exitCode = 0
    /\ checkpoint = 0
    /\ total_lines = 0
    /\ running = TRUE
    /\ current_position = 0
    /\ processed = 0
    /\ valid_count = 0
    /\ cursor = 0
    /\ work = {}
    /\ exhausted = FALSE
    /\ crashed = 0
    /\ locked = FALSE
    /\ poisoned = FALSE
    /\ outBuf = <<>>
    /\ outFile = <<>>
    /\ hpc = "off"
    /\ hpos = 0
    /\ sigAt = "none"
    /\ persisted = <<>>
    /\ handed = {}
    /\ handCount = 0
    /\ accepted = {}
    /\ evaluated = {}
    \* GUI.rs:43-74  AppState::default
    /\ is_running = FALSE
    /\ cancel_flag = FALSE
    /\ progress = NoProgress
    /\ progress_rx = 0
    /\ runs = 0
    /\ chan = [r \in Runs |-> <<>>]
    /\ tpc = [r \in Runs |-> "unborn"]
    /\ tidx = [r \in Runs |-> 0]
    /\ tproc = [r \in Runs |-> 0]
    /\ tvalid = [r \in Runs |-> 0]
    /\ tbuf = [r \in Runs |-> <<>>]
    /\ toff = [r \in Runs |-> 0]
    /\ cancelledRuns = {}
    /\ firstOut = <<>>

InitCli ==
    /\ program = "cli"
    /\ fault = "none"
    /\ prefix \in Prefixes
    /\ tail \in Tails
    /\ \E f \in CheckpointFiles(prefix, tail) : cpExists = f[1] /\ cpBytes = f[2]
    /\ Fresh

InitGui ==
    /\ program = "gui"
    /\ fault = "none"
    /\ prefix = 0
    /\ tail \in GuiTails
    /\ cpExists = FALSE
    /\ cpBytes = <<>>
    /\ Fresh

\* the three-line example: a valid phrase, a text that is no phrase, a
\* valid phrase
ExampleFile == <<"v", "x", "v">>

\* the command line program over the example, without a checkpoint file
InitExample ==
    /\ program = "cli"
    /\ fault = "none"
    /\ prefix = 0
    /\ tail = ExampleFile
    /\ cpExists = FALSE
    /\ cpBytes = <<>>
    /\ Fresh

\* The environments in which one operation fails: the input path does not
\* exist, the input cannot be opened, the output cannot be opened, a write
\* to the output file fails, a write of the checkpoint file fails
CliFaults == {"no_input", "open_input", "open_output", "write_output",
              "write_checkpoint"}
GuiFaults == {"read_input", "open_output", "write_output"}
\* the files of these runs hold valid phrases only
FaultTails == UNION {[1..n -> {"v"}] : n \in 0..MaxTail}

InitCliFault ==
    /\ program = "cli"
    /\ fault \in CliFaults
    /\ prefix \in Prefixes
    /\ tail \in FaultTails
    /\ cpExists = (prefix > 0)
    /\ cpBytes = (IF prefix > 0 THEN to_string(prefix) ELSE <<>>)
    /\ Fresh

InitGuiFault ==
    /\ program = "gui"
    /\ fault \in GuiFaults
    /\ prefix = 0
    /\ tail \in FaultTails
    /\ cpExists = FALSE
    /\ cpBytes = <<>>
    /\ Fresh

Init == InitCli \/ InitGui \/ InitExample \/ InitCliFault \/ InitGuiFault

(* --------------------- the main thread, before the pool ---------------- *)
\* main.rs:212-226: main ends the process with status 1 when the input path
\* does not exist, and calls process_file otherwise
CheckInput ==
    /\ program = "cli" /\ alive /\ mainPc = "main"
    /\ IF fault = "no_input"
       THEN /\ alive' = FALSE
            /\ exitCode' = 1
            /\ UNCHANGED mainPc
       ELSE /\ mainPc' = "load"
            /\ UNCHANGED <<alive, exitCode>>
    /\ UNCHANGED <<otherVars, cpVars, checkpoint, total_lines, flagVars, countVars,
                   iterVars, workVars, outVars, hVars, histVars>>

\* main.rs:78-83
LoadCheckpoint ==
    /\ program = "cli" /\ alive /\ mainPc = "load"
    /\ IF cpExists /\ ~Readable(cpBytes)
       THEN /\ alive' = FALSE            \* `?` -> Err -> main: exit(1)
            /\ exitCode' = 1
            /\ UNCHANGED <<checkpoint, mainPc>>
       ELSE /\ checkpoint' = (IF cpExists THEN parse_or_zero(cpBytes) ELSE 0)
            /\ mainPc' = "count"
            /\ UNCHANGED <<alive, exitCode>>
    /\ UNCHANGED <<otherVars, cpVars, total_lines, flagVars, countVars, iterVars,
                   workVars, outVars, hVars, histVars>>

\* main.rs:85-93
CountLines ==
    /\ program = "cli" /\ alive /\ mainPc = "count"
    /\ IF fault = "open_input"
       THEN /\ alive' = FALSE            \* File::open(..)? -> Err -> exit(1)
            /\ exitCode' = 1
            /\ UNCHANGED <<total_lines, mainPc>>
       ELSE /\ total_lines' = FileLen
            /\ mainPc' = "setup"
            /\ UNCHANGED <<alive, exitCode>>
    /\ UNCHANGED <<otherVars, cpVars, checkpoint, flagVars,
                   countVars, iterVars, workVars, outVars, hVars, histVars>>

\* main.rs:97-127: open the output for append, install the handler, counters
SetupRun ==
    /\ program = "cli" /\ alive /\ mainPc = "setup"
    /\ IF fault = "open_output"
       THEN /\ alive' = FALSE            \* .open(output_path)? -> Err -> exit(1)
            /\ exitCode' = 1
            /\ UNCHANGED <<running, current_position, hpc, processed,
                           valid_count, mainPc>>
       ELSE /\ running' = TRUE
            /\ current_position' = checkpoint
            /\ hpc' = "armed"
            /\ processed' = 0
            /\ valid_count' = 0
            /\ mainPc' = "pool"
            /\ UNCHANGED <<alive, exitCode>>
    /\ UNCHANGED <<otherVars, cpVars, checkpoint, total_lines,
                   iterVars, workVars, outVars, hpos, sigAt, histVars>>

(* --------------------------- the worker pool --------------------------- *)
\* The threads of the pool are interchangeable and a thread without an item
\* holds no data: the pool is the set `work` of the items in flight, each
\* with the position of the thread that holds it, and at most NumWorkers
\* items are in flight.
Idle == NumWorkers - Cardinality(work) - crashed
At(x, pc) == (work \ {x}) \cup {[x EXCEPT !.pc = pc]}

\* the same without the filter on the index
FirstAccepted_NoSkip == IF running THEN cursor ELSE total_lines

\* main.rs:133: the first item the filter lets through
FirstAccepted == IF running THEN Max(cursor, checkpoint) ELSE total_lines

\* main.rs:130-135: an idle thread pulls the next item through par_bridge,
\* which calls the filtered iterator under its lock: the items the filter
\* rejects are consumed in the same call
Take ==
    /\ program = "cli" /\ alive /\ mainPc = "pool"
    /\ Idle > 0 /\ ~exhausted
    /\ IF FirstAccepted < total_lines
       THEN /\ work' = work \cup {[i |-> FirstAccepted, pc |-> "check"]}
            /\ cursor' = FirstAccepted + 1
            /\ handed' = handed \cup {FirstAccepted}
            /\ handCount' = handCount + 1
            /\ UNCHANGED exhausted
       ELSE /\ cursor' = Max(cursor, total_lines)
            /\ exhausted' = TRUE
            /\ UNCHANGED <<work, handed, handCount>>
    /\ UNCHANGED <<otherVars, cpVars, mainVars, flagVars, countVars, crashed,
                   outVars, hVars, histVars>>

\* the same for a worker that does not count the line
AfterCheck_NoCount == "store"

\* main.rs:136-140: a worker that read running = true goes on to count the
\* line as processed
AfterCheck == "add"

\* main.rs:136-138
CheckRunning(x) ==
    /\ program = "cli" /\ alive /\ x.pc = "check"
    /\ IF running
       THEN /\ work' = At(x, AfterCheck)
            /\ accepted' = accepted \cup {x.i}
       ELSE /\ work' = work \ {x}
            /\ UNCHANGED accepted
    /\ UNCHANGED <<otherVars, cpVars, mainVars, flagVars, countVars, iterVars,
                   exhausted, crashed, outVars, hVars, evaluated>>

\* main.rs:140
FetchAddProcessed(x) ==
    /\ program = "cli" /\ alive /\ x.pc = "add"
    /\ processed' = processed + 1
    /\ work' = At(x, "store")
    /\ UNCHANGED <<otherVars, cpVars, mainVars, flagVars, valid_count, iterVars,
                   exhausted, crashed, outVars, hVars, histVars>>

\* main.rs:141
StorePosition(x) ==
    /\ program = "cli" /\ alive /\ x.pc = "store"
    /\ current_position' = x.i
    /\ work' = At(x, "eval")
    /\ UNCHANGED <<otherVars, cpVars, mainVars, running, countVars, iterVars,
                   exhausted, crashed, outVars, hVars, histVars>>

\* the same for a worker that never writes
AfterPredicate_NeverWrite(line) == "cp"

\* main.rs:145: the valid line goes on to the writer
AfterPredicate(line) == IF is_valid(line) THEN "lock" ELSE "cp"

\* the same for a worker that passes the failed line on to the writer
AfterReadError_Write == "lock"

\* main.rs:151-153: the failed read is logged and the closure goes on to
\* the periodic checkpoint
AfterReadError == "cp"

\* main.rs:143-145, 151-153: Err is logged; Ok goes to the predicate
Evaluate(x) ==
    /\ program = "cli" /\ alive /\ x.pc = "eval"
    /\ LET line == LineAt(x.i) IN
       IF line = ReadErr
       THEN /\ work' = At(x, AfterReadError)
            /\ UNCHANGED evaluated
       ELSE /\ evaluated' = evaluated \cup {<<x.i, line>>}
            /\ work' = At(x, AfterPredicate(line))
    /\ UNCHANGED <<otherVars, cpVars, mainVars, flagVars, countVars, iterVars,
                   exhausted, crashed, outVars, hVars, accepted>>

\* the same for a lock that is granted to whoever asks
LockFree_Always == TRUE

\* main.rs:101, 146: the Mutex is granted only when no thread holds it
LockFree == ~locked

\* main.rs:146: writer.lock() blocks while another worker holds the Mutex;
\* on a poisoned Mutex it returns Err and unwrap() panics: the job of this
\* thread ends
LockWriter(x) ==
    /\ program = "cli" /\ alive /\ x.pc = "lock"
    /\ LockFree
    /\ IF poisoned
       THEN /\ work' = work \ {x}
            /\ crashed' = crashed + 1
            /\ UNCHANGED locked
       ELSE /\ locked' = TRUE
            /\ work' = At(x, "write")
            /\ UNCHANGED crashed
    /\ UNCHANGED <<otherVars, cpVars, mainVars, flagVars, countVars, iterVars,
                   exhausted, poisoned, outBuf, outFile, hVars, histVars>>

\* main.rs:147: writeln! into the BufWriter, which first writes its buffer
\* to the file when the new text does not fit (the lengths of the texts are
\* not modelled: either case can happen when the buffer is not empty).
\* When the write to the file fails, expect() panics: the guard is dropped
\* during unwinding, which poisons the Mutex, and the job of this thread
\* ends.
WriteLine(x) ==
    /\ program = "cli" /\ alive /\ x.pc = "write"
    /\ \E spill \in (IF outBuf = <<>> THEN {FALSE} ELSE BOOLEAN) :
          IF spill /\ fault = "write_output"
          THEN /\ work' = work \ {x}
               /\ crashed' = crashed + 1
               /\ locked' = FALSE
               /\ poisoned' = TRUE
               /\ UNCHANGED <<outBuf, outFile>>
          ELSE IF spill
          THEN /\ outFile' = outFile \o outBuf
               /\ outBuf' = <<<<x.i, LineAt(x.i)>>>>
               /\ work' = At(x, "inc")
               /\ UNCHANGED <<crashed, locked, poisoned>>
          ELSE /\ outBuf' = Append(outBuf, <<x.i, LineAt(x.i)>>)
               /\ work' = At(x, "inc")
               /\ UNCHANGED <<outFile, crashed, locked, poisoned>>
    /\ UNCHANGED <<otherVars, cpVars, mainVars, flagVars, countVars, iterVars,
                   exhausted, hVars, histVars>>

\* main.rs:148-149: count the valid line, then the guard goes out of scope
IncValid(x) ==
    /\ program = "cli" /\ alive /\ x.pc = "inc"
    /\ valid_count' = valid_count + 1
    /\ locked' = FALSE
    /\ work' = At(x, "cp")
    /\ UNCHANGED <<otherVars, cpVars, mainVars, flagVars, processed, iterVars,
                   exhausted, crashed, poisoned, outBuf, outFile, hVars, histVars>>

\* the same without the comparison with the loaded checkpoint
CheckpointDue_EveryInterval(i) == i % CheckpointInterval = 0

\* main.rs:157
CheckpointDue(i) == i % CheckpointInterval = 0 /\ i > checkpoint

\* main.rs:156-160, 188: the periodic checkpoint; the closure returns.
\* When fs::write fails, expect() panics and the job of this thread ends.
PeriodicCheckpoint(x) ==
    /\ program = "cli" /\ alive /\ x.pc = "cp"
    /\ IF CheckpointDue(x.i) /\ fault = "write_checkpoint"
       THEN /\ crashed' = crashed + 1
            /\ UNCHANGED cpVars
       ELSE IF CheckpointDue(x.i)
       THEN /\ cpExists' = TRUE
            /\ cpBytes' = to_string(x.i)
            /\ persisted' = Append(persisted, [by |-> "worker", val |-> x.i])
            /\ UNCHANGED crashed
       ELSE UNCHANGED <<cpVars, crashed>>
    /\ work' = work \ {x}
    /\ UNCHANGED <<otherVars, mainVars, flagVars, countVars, iterVars, exhausted,
                   outVars, hVars, histVars>>

(* -------------------------- the Ctrl+C handler ------------------------- *)
\* the signal arrives: the handler thread starts the closure of main.rs:112
Interrupt ==
    /\ program = "cli" /\ alive /\ hpc = "armed"
    /\ hpc' = "store"
    /\ sigAt' = (IF mainPc = "pool" THEN "pool" ELSE "consumed")
    /\ UNCHANGED <<otherVars, cpVars, mainVars, flagVars, countVars, iterVars,
                   workVars, outVars, hpos, histVars>>

\* main.rs:113
HandlerStore ==
    /\ program = "cli" /\ alive /\ hpc = "store"
    /\ running' = FALSE
    /\ hpc' = "load"
    /\ UNCHANGED <<otherVars, cpVars, mainVars, current_position, countVars,
                   iterVars, workVars, outVars, hpos, sigAt, histVars>>

\* main.rs:114
HandlerLoad ==
    /\ program = "cli" /\ alive /\ hpc = "load"
    /\ hpos' = current_position
    /\ hpc' = "write"
    /\ UNCHANGED sigAt
    /\ UNCHANGED <<otherVars, cpVars, mainVars, flagVars, countVars, iterVars,
                   workVars, outVars, histVars>>

\* main.rs:116: when fs::write fails, expect() panics in the handler's
\* thread, which ends without reaching process::exit
HandlerWrite ==
    /\ program = "cli" /\ alive /\ hpc = "write"
    /\ IF fault = "write_checkpoint"
       THEN /\ hpc' = "panicked"
            /\ UNCHANGED cpVars
       ELSE /\ cpExists' = TRUE
            /\ cpBytes' = to_string(hpos)
            /\ persisted' = Append(persisted, [by |-> "handler", val |-> hpos])
            /\ hpc' = "exit"
    /\ UNCHANGED <<otherVars, mainVars, flagVars, countVars, iterVars, workVars,
                   outVars, hpos, sigAt, histVars>>

\* main.rs:118: process::exit(0) ends every thread; nothing is flushed
HandlerExit ==
    /\ program = "cli" /\ alive /\ hpc = "exit"
    /\ alive' = FALSE
    /\ exitCode' = 0
    /\ hpc' = "exited"
    /\ UNCHANGED <<otherVars, cpVars, mainPc, checkpoint, total_lines, flagVars,
                   countVars, iterVars, workVars, outVars, hpos, sigAt, histVars>>

(* --------------------- the main thread, after the pool ----------------- *)
\* the same for a for_each that does not wait for its threads
AllJobsEnded_NoJoin == TRUE

\* main.rs:135-188: every thread of the pool has left its loop over the
\* items, at the end of the iterator or in a panic
AllJobsEnded == work = {} /\ (exhausted \/ Idle = 0)

\* main.rs:135-199: for_each returns when the job of every thread has
\* ended, at the end of the iterator or in a panic.  rayon then resumes a
\* panic of a job in the main thread: process_file unwinds, which drops the
\* BufWriter (it writes its buffer, the result is ignored), and the process
\* ends with the status of a panic, 101.
PoolDone ==
    /\ program = "cli" /\ alive /\ mainPc = "pool"
    /\ AllJobsEnded
    /\ IF crashed > 0
       THEN /\ alive' = FALSE
            /\ exitCode' = 101
            /\ mainPc' = "panicked"
            /\ IF fault = "write_output"
               THEN UNCHANGED <<outBuf, outFile>>
               ELSE outFile' = outFile \o outBuf /\ outBuf' = <<>>
       ELSE /\ mainPc' = "final"
            /\ UNCHANGED <<alive, exitCode, outBuf, outFile>>
    /\ UNCHANGED <<otherVars, cpVars, checkpoint, total_lines, flagVars, countVars,
                   iterVars, workVars, locked, poisoned, hVars, histVars>>

\* main.rs:201
FinalCheckpoint ==
    /\ program = "cli" /\ alive /\ mainPc = "final"
    /\ IF fault = "write_checkpoint"
       THEN /\ alive' = FALSE            \* fs::write(..)? -> Err -> exit(1)
            /\ exitCode' = 1
            /\ UNCHANGED <<cpVars, mainPc>>
       ELSE /\ cpExists' = TRUE
            /\ cpBytes' = to_string(total_lines)
            /\ persisted' = Append(persisted, [by |-> "final", val |-> total_lines])
            /\ mainPc' = "remove"
            /\ UNCHANGED <<alive, exitCode>>
    /\ UNCHANGED <<otherVars, checkpoint, total_lines, flagVars,
                   countVars, iterVars, workVars, outVars, hVars, histVars>>

\* main.rs:204
RemoveCheckpoint ==
    /\ program = "cli" /\ alive /\ mainPc = "remove"
    /\ cpExists' = FALSE
    /\ cpBytes' = <<>>
    /\ mainPc' = "flush"
    /\ UNCHANGED <<otherVars, persisted, alive, exitCode, checkpoint, total_lines,
                   flagVars, countVars, iterVars, workVars, outVars, hVars, histVars>>

\* main.rs:207
FinalFlush ==
    /\ program = "cli" /\ alive /\ mainPc = "flush"
    /\ IF fault = "write_output" /\ outBuf # <<>>
       THEN /\ alive' = FALSE            \* flush()? -> Err -> exit(1)
            /\ exitCode' = 1
            /\ UNCHANGED <<outBuf, outFile, mainPc>>
       ELSE /\ outFile' = outFile \o outBuf
            /\ outBuf' = <<>>
            /\ mainPc' = "return"
            /\ UNCHANGED <<alive, exitCode>>
    /\ UNCHANGED <<otherVars, cpVars, checkpoint, total_lines,
                   flagVars, countVars, iterVars, workVars, locked, poisoned, hVars,
                   histVars>>

\* main.rs:209, 228-232: Ok(()) and main returns: exit status 0
ReturnOk ==
    /\ program = "cli" /\ alive /\ mainPc = "return"
    /\ alive' = FALSE
    /\ exitCode' = 0
    /\ mainPc' = "completed"
    /\ UNCHANGED <<otherVars, cpVars, checkpoint, total_lines, flagVars, countVars,
                   iterVars, workVars, outVars, hVars, histVars>>

\* The program is started again after a run that returned Ok: a new process
\* over the same input, output and checkpoint paths (main.rs:212-232).  The
\* files stay as the first process left them.
Restart ==
    /\ program = "cli" /\ ~alive /\ mainPc = "completed"
    /\ firstOut = <<>>
    /\ firstOut' = <<{outFile[k] : k \in 1..Len(outFile)}>>
    /\ mainPc' = "main"
    /\ alive' = TRUE
    /\ exitCode' = 0
    /\ checkpoint' = 0
    /\ total_lines' = 0
    /\ running' = TRUE
    /\ current_position' = 0
    /\ processed' = 0
    /\ valid_count' = 0
    /\ cursor' = 0
    /\ work' = {}
    /\ exhausted' = FALSE
    /\ crashed' = 0
    /\ locked' = FALSE
    /\ poisoned' = FALSE
    /\ outBuf' = <<>>
    /\ hpc' = "off"
    /\ hpos' = 0
    /\ sigAt' = "none"
    /\ persisted' = <<>>
    /\ handed' = {}
    /\ handCount' = 0
    /\ accepted' = {}
    /\ evaluated' = {}
    /\ UNCHANGED <<inputVars, guiVars, cpExists, cpBytes, outFile>>

(* ------------------------------- the GUI ------------------------------- *)
\* a write of `buf` through a file handle whose offset is `off`
WriteAt(f, off, buf) ==
    [k \in 1..Max(Len(f), off + Len(buf)) |->
        IF k > off /\ k <= off + Len(buf) THEN buf[k - off]
        ELSE IF k <= Len(f) THEN f[k] ELSE Hole]

Snapshot(r, st) ==
    [processed |-> tproc[r], valid |-> tvalid[r], total |-> Len(tail), status |-> st]

\* the same for a front-end that takes every snapshot for the last one
IsFinalStatus_Any(st) == TRUE

\* GUI.rs:125
IsFinalStatus(st) == st = "Done." \/ st = "Cancelled."

\* GUI.rs:120-133: update() receives every snapshot that is waiting
GuiPoll ==
    /\ program = "gui" /\ progress_rx # 0
    /\ chan[progress_rx] # <<>>
    /\ LET q == chan[progress_rx]
           final == \E k \in 1..Len(q) : IsFinalStatus(q[k].status)
       IN  /\ progress' = q[Len(q)]
           /\ is_running' = (IF final THEN FALSE ELSE is_running)
           /\ progress_rx' = (IF final THEN 0 ELSE progress_rx)
           /\ chan' = [chan EXCEPT ![progress_rx] = <<>>]
    /\ UNCHANGED <<inputVars, firstOut, cliVars, cancel_flag, runs, tpc, tidx, tproc, tvalid,
                   tbuf, toff, cancelledRuns>>

\* GUI.rs:211-217, 292-303: Start Validation is clicked
ClickStart ==
    /\ program = "gui" /\ ~is_running
    /\ runs < MaxRuns
    /\ is_running' = TRUE
    /\ cancel_flag' = FALSE
    /\ runs' = runs + 1
    /\ progress_rx' = runs + 1
    /\ tpc' = [tpc EXCEPT ![runs + 1] = "read"]
    /\ firstOut' = (IF runs = 1 /\ tpc[1] = "dead" /\ tidx[1] = Len(tail)
                    THEN <<{outFile[k] : k \in 1..Len(outFile)}>> ELSE firstOut)
    /\ UNCHANGED <<inputVars, cliVars, progress, chan, tidx, tproc, tvalid, tbuf,
                   toff, cancelledRuns>>

\* GUI.rs:218-222: Cancel is clicked
ClickCancel ==
    /\ program = "gui" /\ is_running
    /\ cancel_flag' = TRUE
    /\ progress' = [progress EXCEPT !.status = "Cancelling..."]
    /\ cancelledRuns' = cancelledRuns \cup {runs}
    /\ UNCHANGED <<inputVars, firstOut, cliVars, is_running, progress_rx, runs, chan, tpc,
                   tidx, tproc, tvalid, tbuf, toff>>

\* GUI.rs:307-316, 329-338: the snapshot of a thread that could not start
ErrorSnapshot(st) == [processed |-> 0, valid |-> 0, total |-> 0, status |-> st]

\* GUI.rs:305-320: the thread reads the whole input; when that fails it
\* sends the error and returns
GuiRead(r) ==
    /\ program = "gui" /\ tpc[r] = "read"
    /\ IF fault = "read_input"
       THEN /\ chan' = [chan EXCEPT ![r] =
                           Append(@, ErrorSnapshot("Error reading file"))]
            /\ tpc' = [tpc EXCEPT ![r] = "dead"]
       ELSE /\ tpc' = [tpc EXCEPT ![r] = "open"]
            /\ UNCHANGED chan
    /\ UNCHANGED <<inputVars, firstOut, cliVars, is_running, cancel_flag, progress,
                   progress_rx, runs, tidx, tproc, tvalid, tbuf, toff,
                   cancelledRuns>>

\* GUI.rs:322-346: the output is created or truncated; when that fails the
\* thread sends the error and returns
GuiOpen(r) ==
    /\ program = "gui" /\ tpc[r] = "open"
    /\ IF fault = "open_output"
       THEN /\ chan' = [chan EXCEPT ![r] =
                           Append(@, ErrorSnapshot("Failed to create output file"))]
            /\ tpc' = [tpc EXCEPT ![r] = "dead"]
            /\ UNCHANGED <<outFile, tbuf, toff, tproc, tvalid, tidx>>
       ELSE /\ outFile' = <<>>
            /\ tbuf' = [tbuf EXCEPT ![r] = <<>>]
            /\ toff' = [toff EXCEPT ![r] = 0]
            /\ tproc' = [tproc EXCEPT ![r] = 0]
            /\ tvalid' = [tvalid EXCEPT ![r] = 0]
            /\ tidx' = [tidx EXCEPT ![r] = 0]
            /\ tpc' = [tpc EXCEPT ![r] = "loop"]
            /\ UNCHANGED chan
    /\ UNCHANGED <<inputVars, firstOut, cpVars, mainVars, flagVars, countVars, iterVars,
                   workVars, locked, poisoned, outBuf, hVars, histVars, is_running,
                   cancel_flag, progress, progress_rx, runs, cancelledRuns>>

\* GUI.rs:348-364: the next line; the flag; trim and skip the empty line
GuiNextLine(r) ==
    /\ program = "gui" /\ tpc[r] = "loop"
    /\ IF tidx[r] = Len(tail)
       THEN /\ tpc' = [tpc EXCEPT ![r] = "finish"]
            /\ UNCHANGED <<chan, tidx>>
       ELSE IF cancel_flag
       THEN /\ chan' = [chan EXCEPT ![r] = Append(@, Snapshot(r, "Cancelled."))]
            /\ tpc' = [tpc EXCEPT ![r] = "drop"]
            /\ UNCHANGED tidx
       ELSE /\ tidx' = [tidx EXCEPT ![r] = @ + 1]
            /\ tpc' = [tpc EXCEPT ![r] =
                          IF Trim(tail[tidx[r] + 1]) = "" THEN "loop" ELSE "process"]
            /\ UNCHANGED chan
    /\ UNCHANGED <<inputVars, firstOut, cliVars, is_running, cancel_flag, progress,
                   progress_rx, runs, tproc, tvalid, tbuf, toff, cancelledRuns>>

\* GUI.rs:366-381: count the line, evaluate it, write it when it is valid;
\* when the write to the file fails the thread sends the error and returns
GuiProcess(r) ==
    /\ program = "gui" /\ tpc[r] = "process"
    /\ LET line == Trim(tail[tidx[r]]) IN
       /\ tproc' = [tproc EXCEPT ![r] = @ + 1]
       /\ evaluated' = evaluated \cup {<<tidx[r] - 1, line, r>>}
       /\ IF is_valid(line)
          THEN /\ tvalid' = [tvalid EXCEPT ![r] = @ + 1]
               /\ \E spill \in (IF tbuf[r] = <<>> THEN {FALSE} ELSE BOOLEAN) :
                     IF spill /\ fault = "write_output"
                     THEN /\ chan' = [chan EXCEPT ![r] = Append(@,
                                         [processed |-> tproc[r] + 1,
                                          valid |-> tvalid[r] + 1,
                                          total |-> Len(tail),
                                          status |-> "Error writing output"])]
                          /\ tpc' = [tpc EXCEPT ![r] = "drop"]
                          /\ UNCHANGED <<outFile, toff, tbuf>>
                     ELSE IF spill
                     THEN /\ outFile' = WriteAt(outFile, toff[r], tbuf[r])
                          /\ toff' = [toff EXCEPT ![r] = @ + Len(tbuf[r])]
                          /\ tbuf' = [tbuf EXCEPT ![r] = <<<<tidx[r] - 1, line>>>>]
                          /\ tpc' = [tpc EXCEPT ![r] = "report"]
                          /\ UNCHANGED chan
                     ELSE /\ tbuf' = [tbuf EXCEPT ![r] =
                                         Append(@, <<tidx[r] - 1, line>>)]
                          /\ tpc' = [tpc EXCEPT ![r] = "report"]
                          /\ UNCHANGED <<outFile, toff, chan>>
          ELSE /\ tpc' = [tpc EXCEPT ![r] = "report"]
               /\ UNCHANGED <<tvalid, tbuf, toff, outFile, chan>>
    /\ UNCHANGED <<inputVars, firstOut, cpVars, mainVars, flagVars, countVars, iterVars,
                   workVars, locked, poisoned, outBuf, hVars, accepted, is_running,
                   cancel_flag, progress, progress_rx, runs, tidx,
                   cancelledRuns>>

\* GUI.rs:383
ReportDue(n, total) == n % ReportInterval = 0 \/ n = total

\* GUI.rs:383-398
GuiReport(r) ==
    /\ program = "gui" /\ tpc[r] = "report"
    /\ chan' = [chan EXCEPT ![r] =
                   IF ReportDue(tproc[r], Len(tail))
                   THEN Append(@, Snapshot(r, "Processing...")) ELSE @]
    /\ tpc' = [tpc EXCEPT ![r] = "loop"]
    /\ UNCHANGED <<inputVars, firstOut, cliVars, is_running, cancel_flag, progress,
                   progress_rx, runs, tidx, tproc, tvalid, tbuf, toff, cancelledRuns>>

\* GUI.rs:401-411
GuiFinish(r) ==
    /\ program = "gui" /\ tpc[r] = "finish"
    /\ chan' = [chan EXCEPT ![r] = Append(@, Snapshot(r, "Done."))]
    /\ tpc' = [tpc EXCEPT ![r] = "drop"]
    /\ UNCHANGED <<inputVars, firstOut, cliVars, is_running, cancel_flag, progress,
                   progress_rx, runs, tidx, tproc, tvalid, tbuf, toff, cancelledRuns>>

\* GUI.rs:358, 378, 412: the closure ends; dropping the BufWriter writes its
\* buffer, and a failure of that write is ignored
GuiDrop(r) ==
    /\ program = "gui" /\ tpc[r] = "drop"
    /\ IF fault = "write_output"
       THEN UNCHANGED <<outFile, toff>>
       ELSE /\ outFile' = WriteAt(outFile, toff[r], tbuf[r])
            /\ toff' = [toff EXCEPT ![r] = @ + Len(tbuf[r])]
    /\ tbuf' = [tbuf EXCEPT ![r] = <<>>]
    /\ tpc' = [tpc EXCEPT ![r] = "dead"]
    /\ UNCHANGED <<inputVars, firstOut, cpVars, mainVars, flagVars, countVars, iterVars,
                   workVars, locked, poisoned, outBuf, hVars, histVars, is_running,
                   cancel_flag, progress, progress_rx, runs, chan, tidx, tproc,
                   tvalid, cancelledRuns>>

(* ------------------------------ the whole ------------------------------ *)
NextCli ==
    \/ CheckInput
    \/ LoadCheckpoint
    \/ CountLines
    \/ SetupRun
    \/ Take
    \/ \E x \in work : CheckRunning(x)
    \/ \E x \in work : FetchAddProcessed(x)
    \/ \E x \in work : StorePosition(x)
    \/ \E x \in work : Evaluate(x)
    \/ \E x \in work : LockWriter(x)
    \/ \E x \in work : WriteLine(x)
    \/ \E x \in work : IncValid(x)
    \/ \E x \in work : PeriodicCheckpoint(x)
    \/ Interrupt
    \/ HandlerStore
    \/ HandlerLoad
    \/ HandlerWrite
    \/ HandlerExit
    \/ PoolDone
    \/ FinalCheckpoint
    \/ RemoveCheckpoint
    \/ FinalFlush
    \/ ReturnOk

NextGui ==
    \/ GuiPoll
    \/ ClickStart
    \/ ClickCancel
    \/ \E r \in Runs : GuiRead(r)
    \/ \E r \in Runs : GuiOpen(r)
    \/ \E r \in Runs : GuiNextLine(r)
    \/ \E r \in Runs : GuiProcess(r)
    \/ \E r \in Runs : GuiReport(r)
    \/ \E r \in Runs : GuiFinish(r)
    \/ \E r \in Runs : GuiDrop(r)

Next == NextCli \/ NextGui

\* every run of either program, over every input within the bounds
Spec == Init /\ [][Next]_vars

\* Runs that nobody cancels, and the CLI started a second time after the
\* first process returned Ok: no signal arrives, Cancel is not clicked, no
\* operation fails, and the first run starts without a checkpoint file.
InitRerun == (InitCli \/ InitGui) /\ prefix = 0 /\ ~cpExists

NextRerun ==
    \/ CheckInput
    \/ LoadCheckpoint
    \/ CountLines
    \/ SetupRun
    \/ Take
    \/ \E x \in work : CheckRunning(x)
    \/ \E x \in work : FetchAddProcessed(x)
    \/ \E x \in work : StorePosition(x)
    \/ \E x \in work : Evaluate(x)
    \/ \E x \in work : LockWriter(x)
    \/ \E x \in work : WriteLine(x)
    \/ \E x \in work : IncValid(x)
    \/ \E x \in work : PeriodicCheckpoint(x)
    \/ PoolDone
    \/ FinalCheckpoint
    \/ RemoveCheckpoint
    \/ FinalFlush
    \/ ReturnOk
    \/ Restart
    \/ GuiPoll
    \/ ClickStart
    \/ \E r \in Runs : GuiRead(r)
    \/ \E r \in Runs : GuiOpen(r)
    \/ \E r \in Runs : GuiNextLine(r)
    \/ \E r \in Runs : GuiProcess(r)
    \/ \E r \in Runs : GuiReport(r)
    \/ \E r \in Runs : GuiFinish(r)
    \/ \E r \in Runs : GuiDrop(r)

SpecRerun == InitRerun /\ [][NextRerun]_vars

(* ------------------------------- claims -------------------------------- *)
Range(q) == {q[k] : k \in 1..Len(q)}
ValueInFile == parse_or_zero(cpBytes)
PoolFinished == mainPc \in {"final", "remove", "flush", "return", "completed"}
Cancelled == hpc = "exited"

\* C1: over the values that the workers and the interrupt handler write to
\* the checkpoint file during one run, no value is smaller than a value
\* written before it.
C1_CheckpointNeverDecreases ==
    \A a, b \in 1..Len(persisted) :
        (a < b /\ persisted[a].by # "final" /\ persisted[b].by # "final")
            => persisted[a].val <= persisted[b].val

\* C2: every index is handed to one worker once, no index below the loaded
\* checkpoint or beyond the file is handed over, and when the pool has
\* finished without an interrupt the indices handed over are exactly those
\* from the loaded checkpoint up to the last line.
C2_ExactlyTheLinesFromCheckpoint ==
    program = "cli" =>
        /\ handCount = Cardinality(handed)
        /\ \A i \in handed : checkpoint <= i /\ i < total_lines
        /\ (PoolFinished /\ sigAt # "pool") => handed = checkpoint..(total_lines - 1)

\* a resumed run that starts in the middle of the file has gone through the
\* pool without an interrupt
C2_Witness ==
    /\ program = "cli" /\ mainPc = "completed" /\ sigAt = "none"
    /\ checkpoint > 0 /\ checkpoint < total_lines
    /\ handed = checkpoint..(total_lines - 1)

\* line i is fully handled: unless its read failed, the predicate has been
\* evaluated on it and, when it is valid, its text is in the output file
Handled(i) ==
    LineAt(i) # ReadErr =>
        /\ <<i, LineAt(i)>> \in evaluated
        /\ is_valid(LineAt(i)) => <<i, LineAt(i)>> \in Range(outFile)

\* C3: when the run has been cancelled by an interrupt, every line of the run
\* below the value left in the checkpoint file has been fully handled.
C3_NoUnprocessedLineBelowCheckpoint ==
    (program = "cli" /\ Cancelled) =>
        \A i \in checkpoint..(ValueInFile - 1) : i < total_lines => Handled(i)

\* C4: a run started from checkpoint 0 whose handler reads the position when
\* the processed counter is K persists a value that is at most K.
C4_PersistedAtMostProcessed ==
    [][(program = "cli" /\ checkpoint = 0 /\ hpc = "load" /\ hpc' = "write")
          => hpos' <= processed]_vars

\* C5: a process whose workers had consumed all lines before any interrupt
\* arrived ends with the checkpoint file absent.
C5_CompletedLeavesNoCheckpoint ==
    (program = "cli" /\ ~alive /\ PoolFinished /\ sigAt # "pool") => ~cpExists

NonBlank(t) == Trim(t) # ""
\* the lines of the CLI run that have been counted: accepted, and past line 140
Counted == {i \in accepted : [i |-> i, pc |-> "add"] \notin work}
\* the threads of the GUI that are in their loop over the lines
InLoop(r) == tpc[r] \in {"loop", "process", "report"}

\* C6: an empty or whitespace-only line is not passed to the predicate and
\* is not counted: the processed counter is the number of non-empty lines
\* accepted so far, in the CLI pool and in the GUI thread.
C6_BlankLinesSkipped ==
    /\ \A e \in evaluated : NonBlank(e[2])
    /\ program = "cli" =>
          processed = Cardinality({i \in Counted : NonBlank(LineAt(i))})
    /\ \A r \in Runs : InLoop(r) =>
          tproc[r] = Cardinality({k \in 1..tidx[r] : NonBlank(tail[k])})
                     - (IF tpc[r] = "process" THEN 1 ELSE 0)

\* the texts a complete run passes to the predicate, with their indices
CliTexts == {<<i, LineAt(i)>> : i \in {j \in 0..(FileLen - 1) : LineAt(j) # ReadErr}}
GuiTexts == {<<k - 1, Trim(tail[k])>> : k \in {j \in 1..Len(tail) : NonBlank(tail[j])}}
Succeeding(texts) == {e \in texts : is_valid(e[2])}
\* the indices of the lines whose read fails (the lines of the prefix are texts)
ReadFailures == {i \in prefix..(FileLen - 1) : LineAt(i) = ReadErr}
\* the output holds exactly the entries of `want`, each once
OutputIs(want) == Range(outFile) = want /\ Len(outFile) = Cardinality(want)

\* a run that completed without cancellation, no operation having failed
CliCompleted == program = "cli" /\ mainPc = "completed" /\ sigAt = "none"
                /\ checkpoint = 0 /\ fault = "none"
GuiCompleted(r) == program = "gui" /\ r = runs /\ tpc[r] = "dead"
                   /\ tidx[r] = Len(tail) /\ fault = "none"

InWrite == {x \in work : x.pc \in {"write", "inc"}}
InSink(i) == {k \in 1..Len(outFile \o outBuf) : (outFile \o outBuf)[k][1] = i}

\* C8: at most one worker of the CLI pool is inside the write, and only
\* while the lock is held; a worker that waits for the lock stays waiting
\* until it gets it (the Mutex not being poisoned by a failed write); every
\* line a worker has written is in the sink once.
C8_OneWriterAtATime ==
    /\ [](program = "cli" =>
          /\ Cardinality(InWrite) <= 1
          /\ locked <=> InWrite # {}
          /\ \A x \in work : x.pc = "inc" => Cardinality(InSink(x.i)) = 1
          /\ Len(outFile \o outBuf) =
                valid_count + Cardinality({x \in work : x.pc = "inc"}))
    /\ [][\A x \in work : (x.pc = "lock" /\ ~poisoned) =>
             x \in work' \/ [x EXCEPT !.pc = "write"] \in work']_vars

\* one worker is writing while another waits for the lock
C8_Witness ==
    \E x, y \in work : x.pc = "write" /\ y.pc = "lock"

FlagCancelled == IF program = "cli" THEN ~running ELSE cancel_flag
\* a worker that can still read the flag
ActiveWorker ==
    \/ program = "cli" /\ alive /\ work # {}
    \/ program = "gui" /\ \E r \in Runs : tpc[r] \in {"read", "open", "finish"} \/ InLoop(r)

\* C9: the flag goes back from cancelled to not cancelled only when no
\* worker is active.
C9_FlagNotResetUnderWorker ==
    [][(FlagCancelled /\ ~FlagCancelled') => ~ActiveWorker]_vars

\* the GUI has started a second run after the first one was cancelled
C9_Witness ==
    /\ program = "gui" /\ runs > 1
    /\ 1 \in cancelledRuns
    /\ ~cancel_flag

\* C10: when the process has ended, every line a worker accepted has been
\* evaluated and, when it is valid, written to the Output Sink.
C10_AcceptedLineCompleted ==
    (program = "cli" /\ ~alive) =>
        \A i \in accepted : LineAt(i) # ReadErr =>
            /\ <<i, LineAt(i)>> \in evaluated
            /\ is_valid(LineAt(i)) => <<i, LineAt(i)>> \in Range(outFile \o outBuf)

\* the content is a decimal number
IsNumber(s) == s # <<>> /\ \A k \in 1..Len(s) : IsDigit(s[k])

\* C11: loading the checkpoint never ends the process, whatever the
\* checkpoint file holds, and the value loaded is the number in the file
\* when the file holds a number and 0 otherwise.
C11_LoadNeverFails ==
    program = "cli" =>
        /\ mainPc = "load" => alive
        /\ mainPc = "count" =>
              checkpoint = (IF cpExists /\ IsNumber(cpBytes)
                            THEN DigitsValue(cpBytes) ELSE 0)

\* C12: the CLI process ends with status 0 exactly when the run succeeded
\* (or was ended by the interrupt handler), and with status 1 in every other
\* case: no failure ends the process with another status.
C12_ExitStatus ==
    (program = "cli" /\ ~alive) =>
        /\ exitCode = 0 <=> (mainPc = "completed" \/ Cancelled)
        /\ exitCode # 0 => exitCode = 1

\* a CLI run in which nothing but reads of single lines fails and no
\* interrupt arrives
Undisturbed == program = "cli" /\ fault = "none" /\ sigAt = "none"

\* C13: a line whose read fails is neither passed to the predicate nor
\* written nor counted as valid; a run in which nothing else fails and no
\* interrupt arrives ends only as completed, and then every other line from
\* the loaded checkpoint on has been evaluated and, when valid, written, and
\* the valid counter is the number of valid lines among them.
C13_ReadFailureSkipsTheLine ==
    program = "cli" =>
        /\ \A i \in ReadFailures :
              /\ \A e \in evaluated : e[1] # i
              /\ \A e \in Range(outFile \o outBuf) : e[1] # i
        /\ valid_count <= Cardinality({i \in handed : LineAt(i) # ReadErr})
        /\ (Undisturbed /\ ~alive /\ mainPc \notin {"main", "load"}) =>
              /\ mainPc = "completed"
              /\ \A i \in checkpoint..(total_lines - 1) : Handled(i)
              /\ valid_count =
                    Cardinality({i \in checkpoint..(total_lines - 1) :
                                    LineAt(i) # ReadErr /\ is_valid(LineAt(i))})

\* a run has completed in which the read of a line failed and the line
\* after it is valid and in the output
C13_Witness ==
    /\ Undisturbed /\ mainPc = "completed"
    /\ \E i \in handed :
          /\ LineAt(i) = ReadErr
          /\ i + 1 \in handed
          /\ <<i + 1, "v">> \in Range(outFile)

\* the set of the lines in the output file
OutputLines == Range(outFile)
\* the first run was a full run and a later run has ended as a full run
SecondCliRunCompleted == program = "cli" /\ firstOut # <<>> /\ mainPc = "completed"
LaterGuiRunCompleted(r) == program = "gui" /\ firstOut # <<>> /\ r > 1 /\ r = runs
                           /\ tpc[r] = "dead" /\ tidx[r] = Len(tail)

\* C14: when a second full run over the same input has ended, the set of
\* the lines in the output file is the set it was after the first full run,
\* in the CLI, which appends, and in the GUI, which truncates.
C14_SameLinesAfterSecondRun ==
    /\ SecondCliRunCompleted => OutputLines = firstOut[1]
    /\ \A r \in Runs : LaterGuiRunCompleted(r) => OutputLines = firstOut[1]

\* the second CLI process has completed and has appended every valid line
\* a second time
C14_Witness ==
    /\ SecondCliRunCompleted
    /\ firstOut[1] # {}
    /\ Len(outFile) = 2 * Cardinality(firstOut[1])

\* C15: over an input without lines, with no interrupt and no failing
\* operation, the CLI process ends only as completed, with status 0, both
\* counters 0, nothing written and no checkpoint file; the thread of the GUI
\* sends nothing but "Done." with both counters 0 and writes nothing.
C15_EmptyInput ==
    (FileLen = 0 /\ fault = "none" /\ sigAt = "none") =>
        /\ (program = "cli" /\ ~alive) =>
              /\ mainPc = "completed" /\ exitCode = 0
              /\ processed = 0 /\ valid_count = 0
              /\ outFile \o outBuf = <<>>
              /\ ~cpExists
        /\ program = "gui" =>
              /\ outFile = <<>>
              /\ \A r \in Runs :
                    /\ \A m \in Range(chan[r]) :
                          m.status = "Done." /\ m.processed = 0 /\ m.valid = 0
                    /\ tproc[r] = 0 /\ tvalid[r] = 0
                    /\ tpc[r] \notin {"process", "report"}

\* C16: the handler clears the running flag before it reads the position,
\* writes exactly the position it read, and when the handler has ended the
\* process while the pool was still at work the checkpoint file holds the
\* value the handler wrote.
C16_HandlerValueIsLeft ==
    program = "cli" =>
        /\ hpc \in {"load", "write", "exit", "exited", "panicked"} => ~running
        /\ \A k \in 1..Len(persisted) :
              persisted[k].by = "handler" => persisted[k].val = hpos
        /\ (Cancelled /\ mainPc = "pool") => (cpExists /\ cpBytes = to_string(hpos))

\* a write to the output file has failed in a worker
WriteFailed == program = "cli" /\ fault = "write_output" /\ poisoned

\* C17: once a write to the output file has failed in a worker, no worker
\* appends a line, no worker persists a periodic checkpoint, the steps after
\* the pool are not executed, and the process does not end with status 0
\* (unless the interrupt handler ends it).
C17_AbortAfterWriteFailure ==
    /\ [][(WriteFailed /\ WriteFailed') =>
             /\ outBuf' = outBuf /\ outFile' = outFile
             /\ \A k \in 1..Len(persisted') :
                   (k > Len(persisted) => persisted'[k].by # "worker")]_vars
    /\ [](WriteFailed =>
             /\ ~PoolFinished
             /\ (~alive /\ ~Cancelled) => exitCode # 0)

\* the thread of run r has ended and the front-end has received everything
\* it sent
WorkerGone(r) == tpc[r] = "dead" /\ chan[r] = <<>>

\* C18: when the thread of the latest run has ended, however it ended, and
\* the front-end has received all its snapshots, the front-end is not in
\* the Running state and holds no receiver.
C18_RunLeavesRunning ==
    program = "gui" =>
        \A r \in Runs : (r = runs /\ WorkerGone(r)) => (~is_running /\ progress_rx = 0)

\* the thread that holds item x returns from the closure in this step
Returns(x) == x.pc = "cp" /\ x \notin work'
WorkerValues == {persisted[k].val : k \in {j \in 1..Len(persisted) : persisted[j].by = "worker"}}

\* C19: a worker that returns from the closure for line i persists i when i
\* is a multiple of 10000 greater than the loaded checkpoint and persists
\* nothing otherwise, no other step persists a worker's value, and every
\* value persisted by a worker is a multiple of 10000 strictly between the
\* loaded checkpoint and the number of lines (the writes of the checkpoint
\* file not failing).
C19_PeriodicCheckpoint ==
    /\ [][(program = "cli" /\ fault # "write_checkpoint") =>
             /\ \A x \in work : Returns(x) =>
                   IF x.i % CheckpointInterval = 0 /\ x.i > checkpoint
                   THEN /\ persisted' = Append(persisted, [by |-> "worker", val |-> x.i])
                        /\ cpExists' /\ cpBytes' = to_string(x.i)
                   ELSE persisted' = persisted
             /\ (\A x \in work : ~Returns(x)) =>
                   \A k \in 1..Len(persisted') :
                       k > Len(persisted) => persisted'[k].by # "worker"]_vars
    /\ [](program = "cli" =>
             \A v \in WorkerValues :
                 v % CheckpointInterval = 0 /\ checkpoint < v /\ v < total_lines)

\* a worker has persisted 10000 in a run resumed below it, and the worker of
\* another line has returned without persisting anything
C19_Witness ==
    /\ program = "cli" /\ fault = "none"
    /\ WorkerValues = {CheckpointInterval}
    /\ checkpoint < CheckpointInterval
    /\ \E i \in handed : i # CheckpointInterval /\ \A x \in work : x.i # i

\* the "Done." snapshot of run r is on its way to the front-end
DoneSent(r) == \E k \in 1..Len(chan[r]) : chan[r][k].status = "Done."

\* C20: when process_file has passed its flush, and when the "Done."
\* snapshot of a GUI run can be received, the BufWriter of that run holds no
\* line that is not in the output file.
C20_FlushedBeforeCompletion ==
    /\ (program = "cli" /\ mainPc \in {"return", "completed"}) => outBuf = <<>>
    /\ program = "gui" => \A r \in Runs : DoneSent(r) => tbuf[r] = <<>>

\* the number of lines the workers have written to the Output Sink
SinkLines == Len(outFile \o outBuf)

\* C21: in the CLI the number of lines written to the sink exceeds the
\* valid counter by 0 or 1, by 1 only while a worker that has written holds
\* the lock and has not yet counted; the valid counter is at most the
\* processed counter; no step of the process makes a counter smaller.
C21_CountersAndSink ==
    /\ [](program = "cli" =>
             /\ SinkLines - valid_count \in {0, 1}
             /\ SinkLines - valid_count = 1 =>
                   (locked /\ \E x \in work : x.pc = "inc")
             /\ valid_count <= processed)
    /\ [][program = "cli" =>
             (processed' >= processed /\ valid_count' >= valid_count)]_vars

\* a worker has written the second valid line and has not yet counted it
C21_Witness ==
    /\ program = "cli"
    /\ valid_count = 1 /\ SinkLines = 2
    /\ processed >= 2

\* the thread of run r holds the output file open through its BufWriter
HoldsWriter(r) == tpc[r] \in {"loop", "process", "report", "finish", "drop"}

\* C22: in the GUI at most one thread holds the output file open, and while
\* the thread of a new run is on its way to open the output the thread of
\* every earlier run has ended, its writer dropped.
C22_OneWriterThread ==
    program = "gui" =>
        /\ Cardinality({r \in Runs : HoldsWriter(r)}) <= 1
        /\ \A r \in Runs : tpc[r] \in {"read", "open"} =>
              \A q \in Runs : q < r => tpc[q] = "dead"

====
